---------------------------- MODULE Spec2Model ----------------------------
(***************************************************************************)
(* A model of flask_peewee/admin.py: the authorization wrapper of the      *)
(* admin routes, the add / edit form handlers, the delete-preview          *)
(* collector, the related-field collector and the export engine (query     *)
(* rewriting and the streamed JSON array).                                 *)
(*                                                                         *)
(* Strings that the code splits and joins ('__'.join, rsplit('__', 1))     *)
(* are sequences of one-character strings, so that joining and splitting   *)
(* are computed and not assumed to be inverse.                             *)
(***************************************************************************)
EXTENDS Integers, Sequences, FiniteSets, TLC

VARIABLES
    \* ---- ModelAdmin.export / collect_related_fields / Export.prepare_query
    schema,      \* which set of peewee models the admin is registered over
    pc,          \* position of the export handler
    stack,       \* call stack of collect_related_fields: frames [model, path, idx]
    accum,       \* the accumulator dict: (model, path_str) -> list of field names
    raw_fields,  \* request.form.getlist('fields')
    fi,          \* index of the current lookup in the loop of prepare_query
    clone,       \* the query being rewritten
    select,      \* the dict model -> list of columns
    response,    \* what the export handler answered
    \* ---- Admin: registry, panels, routes and the last dispatched request
    registry,    \* self._registry: the registered models
    panels,      \* self._panels: the registered panel titles
    url_map,     \* the blueprint's rules: [rule, view]
    auth_result, \* the last request dispatched through the blueprint
    \* ---- ModelAdmin.add / edit
    db,          \* the rows of the model's table: pk -> value of its one column
    flashes,     \* the messages flashed so far
    form_req,    \* the last add / edit request
    form_resp,   \* the response to it
    \* ---- ModelAdmin.collect_objects
    select_queries,  \* what obj.collect_queries() returned, with each query's rows
    objects,         \* the list collect_objects returned
    del_pc,          \* whether collect_objects has run
    \* ---- ModelAdmin.delete
    delete_collect_objects,  \* the class attribute of the model admin
    del_req,         \* the last delete request: its method and id list
    del_resp,        \* the response to it
    delete_calls,    \* the pks delete_instance was called on while handling it
    \* ---- the generator of Export.json_response
    rows,        \* the rows of the prepared query, in cursor order
    gen_pc,      \* where the generator is suspended
    gen_i,       \* its local i
    gen_pos,     \* how many rows the for loop has taken
    chunks       \* what it has yielded

exportVars == <<schema, pc, stack, accum, raw_fields, fi, clone, select, response>>
authVars   == <<registry, panels, url_map, auth_result>>
formVars   == <<db, flashes, form_req, form_resp>>
deleteVars == <<select_queries, objects, del_pc>>
jsonVars   == <<rows, gen_pc, gen_i, gen_pos, chunks>>
deleteViewVars == <<delete_collect_objects, del_req, del_resp, delete_calls>>

vars == <<exportVars, authVars, formVars, deleteVars, jsonVars, deleteViewVars>>

otherThanExport == <<authVars, formVars, deleteVars, jsonVars, deleteViewVars>>
otherThanAuth   == <<exportVars, formVars, deleteVars, jsonVars, deleteViewVars>>
otherThanForm   == <<exportVars, authVars, deleteVars, jsonVars, deleteViewVars>>
otherThanDelete == <<exportVars, authVars, formVars, jsonVars, deleteViewVars>>
otherThanJson   == <<exportVars, authVars, formVars, deleteVars, deleteViewVars>>
\* the delete view works on the table and flashes, as add and edit do
otherThanDeleteView == <<exportVars, authVars, form_req, form_resp, deleteVars, jsonVars>>

-----------------------------------------------------------------------------
(* Strings                                                                 *)

DELIM == <<"_", "_">>

\* s[i..] starts with d
MatchAt(s, d, i) ==
    /\ i >= 1
    /\ i + Len(d) - 1 <= Len(s)
    /\ SubSeq(s, i, i + Len(d) - 1) = d

\* '__' in s
HasDelim(s) == \E i \in 1..Len(s) : MatchAt(s, DELIM, i)

\* index of the rightmost occurrence of '__' in s
RFind(s) ==
    CHOOSE i \in 1..Len(s) :
        /\ MatchAt(s, DELIM, i)
        /\ \A j \in (i + 1)..Len(s) : ~MatchAt(s, DELIM, j)

\* s.rsplit('__', 1), for s that contains '__'
RSplit(s) ==
    LET i == RFind(s)
    IN  <<SubSeq(s, 1, i - 1), SubSeq(s, i + Len(DELIM), Len(s))>>

\* '__'.join(path)
RECURSIVE JoinPath(_)
JoinPath(path) ==
    IF Len(path) = 0 THEN <<>>
    ELSE IF Len(path) = 1 THEN path[1]
    ELSE path[1] \o DELIM \o JoinPath(Tail(path))

-----------------------------------------------------------------------------
(* The peewee models the admin is registered over.  A field is             *)
(* [name, to]: to is the related model of a ForeignKeyField and NoModel    *)
(* for any other field.  Every peewee model has a primary key column.      *)

NoModel == "None"

Plain(n)  == [name |-> n, to |-> NoModel]
FK(n, m)  == [name |-> n, to |-> m]

n_id      == <<"i", "d">>
n_title   == <<"t">>
n_user    == <<"u">>
n_e_m     == <<"e", "_", "m">>
n_profile == <<"p">>
n_bio     == <<"b", "i", "o">>
n_a       == <<"a">>
n_b       == <<"b">>
n_b2      == <<"b", "2">>
n_c       == <<"c">>
n_boss    == <<"b", "o">>
n_post    == <<"p", "o">>
n_bogus   == <<"z">>

Models == {"Post", "User", "Profile", "A", "B", "C"}

NoFields == [m \in Models |-> <<>>]

\* Post -> User -> Profile: a chain
TreeSchema ==
    [NoFields EXCEPT
        !["Post"]    = <<Plain(n_id), Plain(n_title), FK(n_user, "User")>>,
        !["User"]    = <<Plain(n_id), FK(n_profile, "Profile"), Plain(n_e_m)>>,
        !["Profile"] = <<Plain(n_id), Plain(n_bio)>>]

\* Post -> A -> B -> C and Post -> B: B and C are reached along two paths
DiamondSchema ==
    [NoFields EXCEPT
        !["Post"] = <<Plain(n_id), FK(n_a, "A"), FK(n_b2, "B")>>,
        !["A"]    = <<Plain(n_id), FK(n_b, "B")>>,
        !["B"]    = <<Plain(n_id), FK(n_c, "C")>>,
        !["C"]    = <<Plain(n_id)>>]

\* User.boss -> User: a self-referential relation
SelfRefSchema ==
    [NoFields EXCEPT
        !["Post"] = <<Plain(n_id), FK(n_user, "User")>>,
        !["User"] = <<Plain(n_id), FK(n_boss, "User")>>]

\* Post.user -> User, User.post -> Post: mutually referencing models
MutualSchema ==
    [NoFields EXCEPT
        !["Post"] = <<Plain(n_id), FK(n_user, "User")>>,
        !["User"] = <<FK(n_post, "Post"), Plain(n_id)>>]

SchemaNames == {"tree", "diamond", "selfref", "mutual"}

\* model._meta.get_fields() of each model of the schema
GetFields(s) ==
    CASE s = "tree"    -> TreeSchema
      [] s = "diamond" -> DiamondSchema
      [] s = "selfref" -> SelfRefSchema
      [] s = "mutual"  -> MutualSchema

\* self.model of the ModelAdmin: the root model of every schema
RootModel == "Post"

\* isinstance(field, ForeignKeyField)
IsForeignKey(field) == field.to # NoModel


-----------------------------------------------------------------------------
(* Bounds                                                                  *)

\* the interpreter's recursion limit (sys.getrecursionlimit()), scaled down
RecursionLimit == 5
\* at most this many entries in request.form.getlist('fields')
MaxFields == 2

SeqsUpTo(S, n) == UNION {[1..k -> S] : k \in 0..n}

-----------------------------------------------------------------------------
(* ModelAdmin.collect_related_fields, one step of the recursion at a time  *)

EmptyDict == <<>>

Top == stack[Len(stack)]

\* the field the for loop of the running call is at
CurField == GetFields(schema)[Top.model][Top.idx]

LoopDone == Top.idx > Len(GetFields(schema)[Top.model])

AdvanceTop == [stack EXCEPT ![Len(stack)].idx = @ + 1]

\* a collector that also lists the root model's own fields
ShouldCollectAlways(model) == TRUE

\* elif model != self.model
ShouldCollect(model) == model # RootModel

\* accum.setdefault(key, []); accum[key].append(field)
AccumAppend(acc, key, name) ==
    IF key \in DOMAIN acc
    THEN [acc EXCEPT ![key] = Append(@, name)]
    ELSE (key :> <<name>>) @@ acc

\* export(): related = self.collect_related_fields(self.model, {}, [])
ExportRequest ==
    /\ pc = "idle"
    /\ pc' = "collect"
    /\ stack' = <<[model |-> RootModel, path |-> <<>>, idx |-> 1]>>
    /\ accum' = EmptyDict
    /\ UNCHANGED otherThanExport
    /\ UNCHANGED <<schema, raw_fields, fi, clone, select, response>>

\* a ForeignKeyField: recurse into field.to with path + [field.name]
CollectRecurse ==
    /\ pc = "collect" /\ ~LoopDone
    /\ IsForeignKey(CurField)
    /\ Len(stack) < RecursionLimit
    /\ stack' = Append(AdvanceTop,
                       [model |-> CurField.to,
                        path  |-> Append(Top.path, CurField.name),
                        idx   |-> 1])
    /\ UNCHANGED otherThanExport
    /\ UNCHANGED <<schema, pc, accum, raw_fields, fi, clone, select, response>>

\* the recursive call that exceeds the interpreter's recursion limit
CollectOverflow ==
    /\ pc = "collect" /\ ~LoopDone
    /\ IsForeignKey(CurField)
    /\ Len(stack) >= RecursionLimit
    /\ pc' = "raised"
    /\ response' = [kind |-> "RecursionError"]
    /\ UNCHANGED otherThanExport
    /\ UNCHANGED <<schema, stack, accum, raw_fields, fi, clone, select>>

\* a plain field of a model other than the root: append it under (model, path_str)
CollectAppend ==
    /\ pc = "collect" /\ ~LoopDone
    /\ ~IsForeignKey(CurField)
    /\ ShouldCollect(Top.model)
    /\ accum' = AccumAppend(accum, <<Top.model, JoinPath(Top.path)>>, CurField.name)
    /\ stack' = AdvanceTop
    /\ UNCHANGED otherThanExport
    /\ UNCHANGED <<schema, pc, raw_fields, fi, clone, select, response>>

\* a plain field of the root model: neither branch is taken
CollectSkip ==
    /\ pc = "collect" /\ ~LoopDone
    /\ ~IsForeignKey(CurField)
    /\ ~ShouldCollect(Top.model)
    /\ stack' = AdvanceTop
    /\ UNCHANGED otherThanExport
    /\ UNCHANGED <<schema, pc, accum, raw_fields, fi, clone, select, response>>

\* return accum: back in the caller, or in export() with related bound
CollectReturn ==
    /\ pc = "collect" /\ LoopDone
    /\ stack' = SubSeq(stack, 1, Len(stack) - 1)
    /\ pc' = IF Len(stack) = 1 THEN "collected" ELSE "collect"
    /\ UNCHANGED otherThanExport
    /\ UNCHANGED <<schema, accum, raw_fields, fi, clone, select, response>>

-----------------------------------------------------------------------------
(* Export                                                                  *)

STAR == <<"*">>

\* self.get_query(): self.model.select(), nothing joined, every column
GetQuery ==
    [model |-> RootModel, joined_models |-> {}, joins |-> <<>>,
     query_context |-> RootModel, query |-> (RootModel :> <<STAR>>),
     raised |-> FALSE]

\* Export.__init__: dict([(k[1], k[0]) for k in self.related.keys()])
AliasToModel(related) ==
    [p \in {k[2] : k \in DOMAIN related} |->
        CHOOSE m \in Models : <<m, p>> \in DOMAIN related]

\* query.switch(model)
Switch(query, model) == [query EXCEPT !.query_context = model]

\* query.join(m), from the query context; each join remembers the path it
\* was asked for (p), which peewee does not store
Join(query, m, p) ==
    [query EXCEPT
        !.joined_models = @ \cup {m},
        !.joins = Append(@, [src |-> query.query_context, dst |-> m, path |-> p]),
        !.query_context = m]

\* an ensure_join that never looks at the joined models
NotJoinedUnchecked(query, m) == TRUE

\* the guard of ensure_join
NotJoined(query, m) == m \notin query.joined_models

\* prepare_query.ensure_join(query, m, p)
RECURSIVE ensure_join(_, _, _, _)
ensure_join(query, m, p, alias_to_model) ==
    IF NotJoined(query, m)
    THEN IF ~HasDelim(p)
         THEN Join(Switch(query, query.model), m, p)
         ELSE LET next == RSplit(p)[1]
              IN  IF next \notin DOMAIN alias_to_model
                  THEN [query EXCEPT !.raised = TRUE]
                  ELSE LET next_model == alias_to_model[next]
                           q == ensure_join(query, next_model, next, alias_to_model)
                       IN  IF q.raised THEN q
                           ELSE Join(Switch(q, next_model), m, p)
    ELSE query

\* a selection that keeps only the last column of each model
SelectOverwrite(sel, model, column) == (model :> <<column>>) @@ sel

\* select.setdefault(model, []); select[model].append(column)
SelectAppend(sel, model, column) ==
    IF model \in DOMAIN sel
    THEN [sel EXCEPT ![model] = Append(@, column)]
    ELSE (model :> <<column>>) @@ sel

\* the lookups the export form offers (the root model's fields and the
\* related fields of the map) and two that it does not
Lookups ==
    {f.name : f \in {GetFields(schema)[RootModel][i] :
                        i \in 1..Len(GetFields(schema)[RootModel])}}
    \cup UNION {{JoinPath(<<k[2], accum[k][i]>>) : i \in 1..Len(accum[k])} :
                    k \in DOMAIN accum}
    \cup {n_bogus, JoinPath(<<n_bogus, n_id>>)}


\* export(), GET: the field picker, rendered with related_fields
ExportGet ==
    /\ pc = "collected"
    /\ pc' = "done"
    /\ response' = [kind |-> "render", related_fields |-> accum]
    /\ UNCHANGED otherThanExport
    /\ UNCHANGED <<schema, stack, accum, raw_fields, fi, clone, select>>

\* export(), POST: Export(query, related, raw_fields) and the first lines of
\* prepare_query (clone = self.query.clone(); select = {})
ExportPost(raw) ==
    /\ pc = "collected"
    /\ pc' = "prepare"
    /\ raw_fields' = raw
    /\ fi' = 1
    /\ clone' = GetQuery
    /\ select' = EmptyDict
    /\ UNCHANGED otherThanExport
    /\ UNCHANGED <<schema, stack, accum, response>>

Lookup == raw_fields[fi]

\* path, column = lookup.rsplit('__', 1)
LookupPath   == RSplit(Lookup)[1]
LookupColumn == IF HasDelim(Lookup) THEN RSplit(Lookup)[2] ELSE Lookup

\* the query after the body of the if '__' in lookup
LookupJoined ==
    ensure_join(clone, AliasToModel(accum)[LookupPath], LookupPath,
                AliasToModel(accum))

\* self.alias_to_model[path] raises KeyError, here or in ensure_join
LookupRaises ==
    IF ~HasDelim(Lookup) THEN FALSE
    ELSE IF LookupPath \notin DOMAIN AliasToModel(accum) THEN TRUE
    ELSE LookupJoined.raised

\* the model the column is selected from
LookupModel ==
    IF HasDelim(Lookup) THEN AliasToModel(accum)[LookupPath] ELSE GetQuery.model

\* one iteration of for lookup in self.fields
PrepareLookup ==
    /\ pc = "prepare" /\ fi <= Len(raw_fields)
    /\ ~LookupRaises
    /\ clone' = IF HasDelim(Lookup) THEN LookupJoined ELSE clone
    /\ select' = SelectAppend(select, LookupModel, LookupColumn)
    /\ fi' = fi + 1
    /\ UNCHANGED otherThanExport
    /\ UNCHANGED <<schema, pc, stack, accum, raw_fields, response>>

\* an iteration that raises KeyError: the exception leaves export()
PrepareKeyError ==
    /\ pc = "prepare" /\ fi <= Len(raw_fields)
    /\ LookupRaises
    /\ pc' = "raised"
    /\ response' = [kind |-> "KeyError"]
    /\ UNCHANGED otherThanExport
    /\ UNCHANGED <<schema, stack, accum, raw_fields, fi, clone, select>>

\* clone.query = select; return clone; json_response streams the query
PrepareReturn ==
    /\ pc = "prepare" /\ fi > Len(raw_fields)
    /\ pc' = "done"
    /\ clone' = [clone EXCEPT !.query = select]
    /\ response' = [kind |-> "stream", query |-> select]
    /\ UNCHANGED otherThanExport
    /\ UNCHANGED <<schema, stack, accum, raw_fields, fi, select>>

NoExport ==
    /\ pc = "idle"
    /\ stack = <<>>
    /\ accum = EmptyDict
    /\ raw_fields = <<>>
    /\ fi = 1
    /\ clone = GetQuery
    /\ select = EmptyDict
    /\ response = [kind |-> "none"]

\* the admin may be registered over any of the schemas
InitExport ==
    /\ schema \in SchemaNames
    /\ NoExport

NextExport ==
    \/ ExportRequest
    \/ CollectRecurse
    \/ CollectOverflow
    \/ CollectAppend
    \/ CollectSkip
    \/ CollectReturn
    \/ ExportGet
    \/ \E raw \in SeqsUpTo(Lookups, MaxFields) : ExportPost(raw)
    \/ PrepareLookup
    \/ PrepareKeyError
    \/ PrepareReturn

-----------------------------------------------------------------------------
(* Admin: auth_required and configure_routes                               *)

\* the models and panels an application may register
AdminModels == {"post", "user"}
PanelTitles == {"notes", "stats"}

\* ModelAdmin.get_urls(): the six views of a model admin
ModelAdminUrls ==
    {<<"/", "index">>, <<"/add/", "add">>, <<"/delete/", "delete">>,
     <<"/export/", "export">>, <<"/<pk>/", "edit">>, <<"/_ajax/", "ajax_list">>}

\* get_urls() of a panel class that has views (AdminPanel itself has none)
PanelUrls(title) ==
    IF title = "notes" THEN {<<"/", "create">>} ELSE {}

\* whoever auth.get_logged_in_user() may return: None, or a user object
NoUser == [logged_in |-> FALSE, admin |-> FALSE]
Users  == {NoUser,
           [logged_in |-> TRUE, admin |-> FALSE],
           [logged_in |-> TRUE, admin |-> TRUE]}

\* Admin.check_user_permission
CheckUserPermission(user) == user.admin

\* a registration that forgets the wrapper
Unwrapped(func) == [func |-> func, auth_required |-> FALSE]

\* Admin.auth_required(func): the view function inner wrapping func
AuthRequired(func) == [func |-> func, auth_required |-> TRUE]

\* inner(*args, **kwargs): what a call of the wrapped view does
Inner(view, user, path) ==
    IF ~user.logged_in
    THEN [kind |-> "redirect", location |-> <<"login", path>>, invoked |-> "none"]
    ELSE IF ~CheckUserPermission(user)
    THEN [kind |-> "abort", location |-> <<"403", path>>, invoked |-> "none"]
    ELSE [kind |-> "handled", location |-> <<"", path>>, invoked |-> view.func]

\* a call of a view registered without the wrapper
Plain_call(view, path) ==
    [kind |-> "handled", location |-> <<"", path>>, invoked |-> view.func]

\* Admin.get_urls(): (('/', self.auth_required(self.index)),)
AdminGetUrls == {[rule |-> <<"", "/">>, view |-> AuthRequired(<<"admin", "index">>)]}

\* the rules the loop over self._registry adds
ModelAdminRules ==
    {[rule |-> <<m, u[1]>>, view |-> AuthRequired(<<m, u[2]>>)] :
        m \in registry, u \in ModelAdminUrls}

\* the rules the loop over self._panels adds
PanelRules ==
    UNION {{[rule |-> <<t, u[1]>>, view |-> AuthRequired(<<t, u[2]>>)] :
               u \in PanelUrls(t)} : t \in panels}

\* Admin.register(model)
Register(m) ==
    /\ m \notin registry
    /\ registry' = registry \cup {m}
    /\ UNCHANGED <<panels, url_map, auth_result>>
    /\ UNCHANGED otherThanAuth

\* Admin.unregister(model)
Unregister(m) ==
    /\ m \in registry
    /\ registry' = registry \ {m}
    /\ UNCHANGED <<panels, url_map, auth_result>>
    /\ UNCHANGED otherThanAuth

\* Admin.register_panel(title, panel)
RegisterPanel(t) ==
    /\ t \notin panels
    /\ panels' = panels \cup {t}
    /\ UNCHANGED <<registry, url_map, auth_result>>
    /\ UNCHANGED otherThanAuth

\* Admin.unregister_panel(title)
UnregisterPanel(t) ==
    /\ t \in panels
    /\ panels' = panels \ {t}
    /\ UNCHANGED <<registry, url_map, auth_result>>
    /\ UNCHANGED otherThanAuth

\* Admin.configure_routes(), called once by setup()
ConfigureRoutes ==
    /\ url_map = {}
    /\ url_map' = AdminGetUrls \cup ModelAdminRules \cup PanelRules
    /\ UNCHANGED <<registry, panels, auth_result>>
    /\ UNCHANGED otherThanAuth

\* a request for a registered rule, made by whoever is logged in
Dispatch(r, user) ==
    /\ r \in url_map
    /\ auth_result' =
          [rule |-> r.rule, user |-> user,
           outcome |-> IF r.view.auth_required
                       THEN Inner(r.view, user, r.rule)
                       ELSE Plain_call(r.view, r.rule)]
    /\ UNCHANGED <<registry, panels, url_map>>
    /\ UNCHANGED otherThanAuth

NoRequest == [rule |-> <<"", "">>, user |-> NoUser,
              outcome |-> [kind |-> "none", location |-> <<"", <<"", "">>>>,
                           invoked |-> "none"]]

InitAuth ==
    /\ registry = {}
    /\ panels = {}
    /\ url_map = {}
    /\ auth_result = NoRequest

NextAuth ==
    \/ \E m \in AdminModels : Register(m)
    \/ \E m \in AdminModels : Unregister(m)
    \/ \E t \in PanelTitles : RegisterPanel(t)
    \/ \E t \in PanelTitles : UnregisterPanel(t)
    \/ ConfigureRoutes
    \/ \E r \in url_map, user \in Users : Dispatch(r, user)

-----------------------------------------------------------------------------
(* ModelAdmin.add and ModelAdmin.edit                                      *)

\* the table holds at most this many rows
MaxPk == 2
\* at most this many messages are flashed
MaxFlashes == 2

\* request.form: the one column of the model and the submit button pressed
FormValues  == {"", "x", "y"}
FormButtons == {"save", "save_add", "save_continue"}
Forms       == [value : FormValues, button : FormButtons]
Methods     == {"GET", "POST"}

\* form.validate(): the column is required
Validate(form) == form.value # ""

\* a handler that saves whatever is posted
ShouldSaveUnvalidated(method, form) == method = "POST"

\* if request.method == 'POST': ... if form.validate():
ShouldSave(method, form) == method = "POST" /\ Validate(form)

\* the pk the database gives an inserted row (auto increment)
NextPk == IF DOMAIN db = {} THEN 1
          ELSE 1 + CHOOSE k \in DOMAIN db : \A o \in DOMAIN db : o <= k

\* save_model: form.populate_obj(instance); instance.save(force_insert=adding)
SaveModel(table, pk, form) ==
    IF pk \in DOMAIN table
    THEN [table EXCEPT ![pk] = form.value]
    ELSE (pk :> form.value) @@ table

\* dispatch_save_redirect(instance)
DispatchSaveRedirect(form, pk) ==
    IF form.button = "save" THEN <<"index", 0>>
    ELSE IF form.button = "save_add" THEN <<"add", 0>>
    ELSE <<"edit", pk>>

Redirect(to)        == [kind |-> "redirect", to |-> to, form |-> <<>>]
Rendered(tmpl, frm) == [kind |-> "render", to |-> <<tmpl, 0>>, form |-> frm]
Aborted(code)       == [kind |-> "abort", to |-> <<code, 0>>, form |-> <<>>]

\* Form(request.form): the form bound to what was posted
Bound(form) == <<form.value>>
\* Form(): the empty form
Unbound == <<>>

\* ModelAdmin.add
Add(method, form) ==
    /\ form_req' = [view |-> "add", pk |-> 0, method |-> method, form |-> form]
    /\ IF ShouldSave(method, form)
       THEN /\ NextPk <= MaxPk
            /\ Len(flashes) < MaxFlashes
            /\ db' = SaveModel(db, NextPk, form)
            /\ flashes' = Append(flashes, "New saved successfully")
            /\ form_resp' = Redirect(DispatchSaveRedirect(form, NextPk))
       ELSE /\ form_resp' = Rendered("add", IF method = "POST" THEN Bound(form)
                                                               ELSE Unbound)
            /\ UNCHANGED <<db, flashes>>
    /\ UNCHANGED otherThanForm

\* ModelAdmin.edit(pk), the row exists
Edit(pk, method, form) ==
    /\ pk \in DOMAIN db
    /\ form_req' = [view |-> "edit", pk |-> pk, method |-> method, form |-> form]
    /\ IF ShouldSave(method, form)
       THEN /\ Len(flashes) < MaxFlashes
            /\ db' = SaveModel(db, pk, form)
            /\ flashes' = Append(flashes, "Changes saved successfully")
            /\ form_resp' = Redirect(DispatchSaveRedirect(form, pk))
       ELSE /\ form_resp' = Rendered("edit", IF method = "POST" THEN Bound(form)
                                                                ELSE <<db[pk]>>)
            /\ UNCHANGED <<db, flashes>>
    /\ UNCHANGED otherThanForm

\* ModelAdmin.edit(pk), get_object raises DoesNotExist: abort(404)
EditNotFound(pk, method, form) ==
    /\ pk \notin DOMAIN db
    /\ form_req' = [view |-> "edit", pk |-> pk, method |-> method, form |-> form]
    /\ form_resp' = Aborted("404")
    /\ UNCHANGED <<db, flashes>>
    /\ UNCHANGED otherThanForm

InitForm ==
    /\ db = EmptyDict
    /\ flashes = <<>>
    /\ form_req = [view |-> "none", pk |-> 0, method |-> "GET",
                   form |-> [value |-> "", button |-> "save"]]
    /\ form_resp = [kind |-> "none", to |-> <<"", 0>>, form |-> <<>>]

NextForm ==
    \/ \E method \in Methods, form \in Forms : Add(method, form)
    \/ \E pk \in 1..MaxPk, method \in Methods, form \in Forms : Edit(pk, method, form)
    \/ \E pk \in 1..MaxPk, method \in Methods, form \in Forms :
          EditNotFound(pk, method, form)

-----------------------------------------------------------------------------
(* ModelAdmin.collect_objects                                              *)

\* obj.collect_queries() returns at most this many select queries
MaxQueries == 3
\* the dependents are at most this deep
MaxDepth == 1

\* the code point of a character of a model name
Ord(c) == CASE c = "A" -> 65 [] c = "B" -> 66 [] c = "C" -> 67

\* the names (model.__name__) of the models that depend on the deleted one
DependentNames == {<<"A">>, <<"A", "B">>, <<"B">>}

\* str < str: by code point, a proper prefix first
RECURSIVE StrLess(_, _)
StrLess(a, b) ==
    IF b = <<>> THEN FALSE
    ELSE IF a = <<>> THEN TRUE
    ELSE IF Ord(Head(a)) # Ord(Head(b)) THEN Ord(Head(a)) < Ord(Head(b))
    ELSE StrLess(Tail(a), Tail(b))

\* a sort on depth alone
KeyLessDepthOnly(x, y) == x.depth < y.depth

\* (i[0], i[1].__name__) < (j[0], j[1].__name__)
KeyLess(x, y) ==
    \/ x.depth < y.depth
    \/ x.depth = y.depth /\ StrLess(x.model, y.model)

\* x put into a sorted list, behind the entries that are not greater
Insert(sorted, x) ==
    LET later == {i \in 1..Len(sorted) : KeyLess(x, sorted[i])}
        at    == IF later = {} THEN Len(sorted) + 1
                 ELSE CHOOSE i \in later : \A k \in later : i <= k
    IN  SubSeq(sorted, 1, at - 1) \o <<x>> \o SubSeq(sorted, at, Len(sorted))

\* sorted(objects, key=lambda i: (i[0], i[1].__name__)): a stable sort
RECURSIVE Sorted(_)
Sorted(seq) ==
    IF seq = <<>> THEN <<>>
    ELSE Insert(Sorted(SubSeq(seq, 1, Len(seq) - 1)), seq[Len(seq)])

\* if collected:
HasRows(q) == q.collected # <<>>

\* the for loop: (depth, model, fk_field, collected) of each query with rows
RECURSIVE Collected(_)
Collected(queries) ==
    IF queries = <<>> THEN <<>>
    ELSE (IF HasRows(Head(queries)) THEN <<Head(queries)>> ELSE <<>>)
         \o Collected(Tail(queries))

\* a select query of collect_queries() with the rows its execution returns
QueryResults ==
    [depth : 0..MaxDepth, model : DependentNames, fk_field : {"fk"},
     collected : {<<>>, <<1>>}]

\* ModelAdmin.collect_objects(obj)
CollectObjects ==
    /\ del_pc = "start"
    /\ objects' = Sorted(Collected(select_queries))
    /\ del_pc' = "done"
    /\ UNCHANGED select_queries
    /\ UNCHANGED otherThanDelete

IdleDelete ==
    /\ objects = <<>>
    /\ del_pc = "start"

\* obj.collect_queries() may return any list of queries
InitDelete ==
    /\ select_queries \in SeqsUpTo(QueryResults, MaxQueries)
    /\ IdleDelete

NextDelete == CollectObjects

-----------------------------------------------------------------------------
(* ModelAdmin.delete                                                       *)

\* request.args.getlist('id') / request.form.getlist('id') has at most this
\* many entries
MaxIds == 2

\* the ids a request may name; a table that lacks one of them makes it an id
\* that is no row's
RequestIds == 1..MaxPk

\* obj.collect_queries() of the row with this pk, with each query's rows
DependentQueries(pk) ==
    IF pk = 1
    THEN <<[depth |-> 1, model |-> <<"B">>, fk_field |-> "fk", collected |-> <<1>>],
           [depth |-> 0, model |-> <<"A">>, fk_field |-> "fk", collected |-> <<>>],
           [depth |-> 0, model |-> <<"A", "B">>, fk_field |-> "fk", collected |-> <<1>>]>>
    ELSE <<[depth |-> 0, model |-> <<"A">>, fk_field |-> "fk", collected |-> <<>>]>>

\* a query that selects the whole table
QueryAll(table, id_list) == DOMAIN table

\* self.model.select().where(pk__in=id_list): the pks of the rows it returns
Query(table, id_list) ==
    {pk \in DOMAIN table : \E i \in 1..Len(id_list) : id_list[i] = pk}

\* for obj in query: the rows in the order the cursor returns them
RECURSIVE Iterate(_)
Iterate(pks) ==
    IF pks = {} THEN <<>>
    ELSE LET first == CHOOSE k \in pks : \A o \in pks : k <= o
         IN  <<first>> \o Iterate(pks \ {first})

\* obj.delete_instance(recursive=self.delete_recursive): the row is gone
DeleteInstance(table, pk) == [k \in DOMAIN table \ {pk} |-> table[k]]

\* the table after the loop for obj in query: obj.delete_instance(...)
RECURSIVE DeleteEach(_, _)
DeleteEach(table, objs) ==
    IF objs = <<>> THEN table
    ELSE DeleteEach(DeleteInstance(table, Head(objs)), Tail(objs))

\* collected[obj.get_pk()] = self.collect_objects(obj), for obj in query
CollectEach(pks) == [pk \in pks |-> Sorted(Collected(DependentQueries(pk)))]

\* ModelAdmin.delete, GET: the preview
DeleteGet(id_list) ==
    /\ del_req' = [method |-> "GET", id_list |-> id_list]
    /\ delete_calls' = <<>>
    /\ del_resp' =
          [kind |-> "render", to |-> "delete",
           query |-> Iterate(Query(db, id_list)),
           collected |-> IF delete_collect_objects
                         THEN CollectEach(Query(db, id_list))
                         ELSE EmptyDict]
    /\ UNCHANGED <<db, flashes, delete_collect_objects>>
    /\ UNCHANGED otherThanDeleteView

\* ModelAdmin.delete, POST: delete, flash the count, redirect to the index
DeletePost(id_list) ==
    /\ Len(flashes) < MaxFlashes
    /\ del_req' = [method |-> "POST", id_list |-> id_list]
    /\ delete_calls' = Iterate(Query(db, id_list))
    /\ db' = DeleteEach(db, Iterate(Query(db, id_list)))
    /\ flashes' = Append(flashes, <<"Successfully deleted",
                                    Cardinality(Query(db, id_list))>>)
    /\ del_resp' = [kind |-> "redirect", to |-> "index", query |-> <<>>,
                    collected |-> EmptyDict]
    /\ UNCHANGED delete_collect_objects
    /\ UNCHANGED otherThanDeleteView

NoFormRequest ==
    /\ form_req = [view |-> "none", pk |-> 0, method |-> "GET",
                   form |-> [value |-> "", button |-> "save"]]
    /\ form_resp = [kind |-> "none", to |-> <<"", 0>>, form |-> <<>>]

NoDeleteRequest ==
    /\ del_req = [method |-> "none", id_list |-> <<>>]
    /\ del_resp = [kind |-> "none", to |-> "", query |-> <<>>,
                   collected |-> EmptyDict]
    /\ delete_calls = <<>>

\* no delete view is in use
IdleDeleteView == delete_collect_objects = TRUE /\ NoDeleteRequest

\* the tables the delete view may find: any rows with pks up to MaxPk
Tables == UNION {[S -> {"x", "y"}] : S \in SUBSET (1..MaxPk)}

InitDeleteView ==
    /\ db \in Tables
    /\ flashes = <<>>
    /\ delete_collect_objects \in BOOLEAN
    /\ NoDeleteRequest

NextDeleteView ==
    \/ \E id_list \in SeqsUpTo(RequestIds, MaxIds) : DeleteGet(id_list)
    \/ \E id_list \in SeqsUpTo(RequestIds, MaxIds) : DeletePost(id_list)

-----------------------------------------------------------------------------
(* The generator of Export.json_response                                   *)

\* the prepared query returns at most this many rows
MaxRows == 3

\* the objects a row of the result may be
RowObjects == {"r1", "r2", "r3"}

\* json.dumps(serializer.serialize_object(obj, prepared_query.query))
Dumps(obj) == <<"{", obj, "}">>

OPEN      == <<"[", "\n">>
SEPARATOR == <<",", "\n">>
CLOSE     == <<"\n", "]">>

\* prepared_query.count()
Count(result) == Len(result)

\* a generator that separates after every row
MoreRowsAlways(i) == i >= 0

\* if i > 0:
MoreRows(i) == i > 0

\* i = prepared_query.count(); yield '[\n'
GenOpen ==
    /\ gen_pc = "start"
    /\ gen_i' = Count(rows)
    /\ chunks' = <<OPEN>>
    /\ gen_pc' = "for"
    /\ UNCHANGED <<rows, gen_pos>>
    /\ UNCHANGED otherThanJson

\* for obj in prepared_query: i -= 1; yield json.dumps(...)
GenRow ==
    /\ gen_pc = "for"
    /\ gen_pos < Len(rows)
    /\ gen_pos' = gen_pos + 1
    /\ gen_i' = gen_i - 1
    /\ chunks' = Append(chunks, Dumps(rows[gen_pos + 1]))
    /\ gen_pc' = "if"
    /\ UNCHANGED rows
    /\ UNCHANGED otherThanJson

\* if i > 0: yield ',\n'
GenSeparator ==
    /\ gen_pc = "if"
    /\ MoreRows(gen_i)
    /\ chunks' = Append(chunks, SEPARATOR)
    /\ gen_pc' = "for"
    /\ UNCHANGED <<rows, gen_i, gen_pos>>
    /\ UNCHANGED otherThanJson

\* i is 0: nothing is yielded after the last row
GenNoSeparator ==
    /\ gen_pc = "if"
    /\ ~MoreRows(gen_i)
    /\ gen_pc' = "for"
    /\ UNCHANGED <<rows, gen_i, gen_pos, chunks>>
    /\ UNCHANGED otherThanJson

\* the cursor is exhausted: yield '\n]'
GenClose ==
    /\ gen_pc = "for"
    /\ gen_pos = Len(rows)
    /\ chunks' = Append(chunks, CLOSE)
    /\ gen_pc' = "done"
    /\ UNCHANGED <<rows, gen_i, gen_pos>>
    /\ UNCHANGED otherThanJson

IdleJson ==
    /\ gen_pc = "start"
    /\ gen_i = 0
    /\ gen_pos = 0
    /\ chunks = <<>>

InitJson ==
    /\ rows \in SeqsUpTo(RowObjects, MaxRows)
    /\ IdleJson

NextJson ==
    \/ GenOpen
    \/ GenRow
    \/ GenSeparator
    \/ GenNoSeparator
    \/ GenClose

-----------------------------------------------------------------------------
(* Specifications: one per handler; the other handlers are idle            *)

IdleExport == schema = "tree" /\ NoExport
IdleRows   == rows = <<>> /\ IdleJson
NoQueries  == select_queries = <<>> /\ IdleDelete

\* an export request over any of the schemas
InitOfExport == IdleDeleteView /\ InitAuth /\ InitForm /\ NoQueries /\ IdleRows /\ InitExport

SpecExport == InitOfExport /\ [][NextExport]_vars

\* the admin is set up and requests are dispatched
InitOfAuth == IdleDeleteView /\ InitAuth /\ IdleExport /\ InitForm /\ NoQueries /\ IdleRows

SpecAuth == InitOfAuth /\ [][NextAuth]_vars

\* add and edit requests
InitOfForm == IdleDeleteView /\ InitForm /\ IdleExport /\ InitAuth /\ NoQueries /\ IdleRows

SpecForm == InitOfForm /\ [][NextForm]_vars

\* the delete preview collects the dependents of an object
InitOfDelete == IdleDeleteView /\ IdleExport /\ InitAuth /\ InitForm /\ IdleRows /\ InitDelete

SpecDelete == InitOfDelete /\ [][NextDelete]_vars

\* the streamed response is consumed chunk by chunk
InitOfJson == IdleDeleteView /\ IdleExport /\ InitAuth /\ InitForm /\ NoQueries /\ InitJson

SpecJson == InitOfJson /\ [][NextJson]_vars

\* delete requests, previews and confirmations, over any table
InitOfDeleteView ==
    IdleExport /\ InitAuth /\ NoFormRequest /\ NoQueries /\ IdleRows /\ InitDeleteView

SpecDeleteView == InitOfDeleteView /\ [][NextDeleteView]_vars

-----------------------------------------------------------------------------
(* What the schema says, read off the field lists without the collector    *)

FieldSet(s, m) == {GetFields(s)[m][i] : i \in 1..Len(GetFields(s)[m])}

\* the model a sequence of relation-field names leads to from m, or NoModel
RECURSIVE Reach(_, _, _)
Reach(s, m, path) ==
    IF path = <<>> THEN m
    ELSE LET fs == {f \in FieldSet(s, m) : IsForeignKey(f) /\ f.name = Head(path)}
         IN  IF fs = {} THEN NoModel
             ELSE Reach(s, (CHOOSE f \in fs : TRUE).to, Tail(path))

RelationNames(s) ==
    UNION {{f.name : f \in {g \in FieldSet(s, m) : IsForeignKey(g)}} : m \in Models}

\* the models one relation away from the models of S
Step(s, S) == UNION {{f.to : f \in {g \in FieldSet(s, m) : IsForeignKey(g)}} : m \in S}

RECURSIVE Closure(_, _, _)
Closure(s, S, n) == IF n = 0 THEN S ELSE Closure(s, S \cup Step(s, S), n - 1)

\* no model is related, directly or not, to itself
Acyclic(s) ==
    \A m \in Models : m \notin Closure(s, Step(s, {m}), Cardinality(Models))

\* the non-empty relation paths from the root model (an acyclic schema has
\* none longer than the number of its models)
RelationPaths(s) ==
    {p \in SeqsUpTo(RelationNames(s), Cardinality(Models) - 2) :
        p # <<>> /\ Reach(s, RootModel, p) # NoModel}

Occurrences(seq, x) == Cardinality({i \in 1..Len(seq) : seq[i] = x})

-----------------------------------------------------------------------------
(* C3 *)

\* C3: prepare_query adds a join for a given model at most once, however many
\* selected columns need that model and in whatever order they are selected.
JoinedAtMostOnce ==
    \A i, j \in 1..Len(clone.joins) :
        clone.joins[i].dst = clone.joins[j].dst => i = j

\* two selected lookups need the same related model, reached along two
\* different paths, and the query was rewritten
JoinedAtMostOnceWitness ==
    /\ pc = "done" /\ response.kind = "stream"
    /\ Len(raw_fields) = 2
    /\ HasDelim(raw_fields[1]) /\ HasDelim(raw_fields[2])
    /\ RSplit(raw_fields[1])[1] # RSplit(raw_fields[2])[1]
    /\ AliasToModel(accum)[RSplit(raw_fields[1])[1]]
         = AliasToModel(accum)[RSplit(raw_fields[2])[1]]
    /\ Len(clone.joins) >= 1

-----------------------------------------------------------------------------
(* C4 *)

\* the model and the column a lookup asks for, by the rule of the claim:
\* 'ancestor__column' with ancestor a path of the related-field map and
\* column a name without delimiter
Asks(lookup, m, col) ==
    IF HasDelim(lookup)
    THEN /\ ~HasDelim(col)
         /\ \E k \in DOMAIN accum : m = k[1] /\ lookup = k[2] \o DELIM \o col
    ELSE m = RootModel /\ col = lookup

Suffixes(l) == {SubSeq(l, i, Len(l)) : i \in 1..(Len(l) + 1)}

RECURSIVE ColumnsAsked(_, _)
ColumnsAsked(m, lookups) ==
    IF lookups = <<>> THEN <<>>
    ELSE LET cols == {c \in Suffixes(Head(lookups)) : Asks(Head(lookups), m, c)}
         IN  (IF cols = {} THEN <<>> ELSE <<CHOOSE c \in cols : TRUE>>)
             \o ColumnsAsked(m, Tail(lookups))

\* C4: the query prepare_query returns selects, per model, exactly the
\* requested columns: an undelimited lookup is a column of the root model,
\* 'ancestor__column' is a column of the model the related-field map has for
\* ancestor, and nothing else (no other model, no column, no wildcard) is
\* selected.
SelectionIsRequested ==
    (pc = "done" /\ response.kind = "stream") =>
        /\ DOMAIN clone.query = {m \in Models : ColumnsAsked(m, raw_fields) # <<>>}
        /\ \A m \in DOMAIN clone.query : clone.query[m] = ColumnsAsked(m, raw_fields)
        /\ response.query = clone.query

\* a rewritten query that selects two columns of one related model
SelectionIsRequestedWitness ==
    /\ pc = "done" /\ response.kind = "stream"
    /\ \E m \in DOMAIN clone.query : m # RootModel /\ Len(clone.query[m]) = 2

-----------------------------------------------------------------------------
(* C5 *)

\* the proper prefixes of a path string that end before a '__'
ProperPrefixes(p) == {SubSeq(p, 1, i - 1) : i \in {k \in 1..Len(p) : MatchAt(p, DELIM, k)}}

\* C5: when the join to the model at a path is added, the models at every
\* proper prefix of the path are joined already, and the join is made from
\* the model at the parent prefix (from the root model for a one-segment path).
AncestorsJoinedFirst ==
    \A i \in 1..Len(clone.joins) :
        LET j      == clone.joins[i]
            before == {clone.joins[k].dst : k \in 1..(i - 1)}
            alias  == AliasToModel(accum)
        IN  /\ \A r \in ProperPrefixes(j.path) \ {<<>>} :
                   r \in DOMAIN alias /\ alias[r] \in before
            /\ j.src = IF HasDelim(j.path) THEN alias[RSplit(j.path)[1]]
                       ELSE RootModel

-----------------------------------------------------------------------------
(* C6 *)

\* C6: collect_related_fields terminates on every schema, one with a cycle
\* included: the walk never runs into the recursion limit.
CollectNeverOverflows ==
    ~(pc = "raised" /\ response.kind = "RecursionError")

-----------------------------------------------------------------------------
(* C7 *)

PlainNames(s, m) == {f.name : f \in {g \in FieldSet(s, m) : ~IsForeignKey(g)}}

\* C7: on an acyclic schema the collector returns a map that has, for every
\* non-empty relation path from the root, the key (model reached, joined
\* path) listing every plain field of that model exactly once; the root
\* model's own fields are under no key and no relation field is in any list.
CollectedMapIsRight ==
    (pc = "collected" /\ Acyclic(schema)) =>
        /\ \A p \in RelationPaths(schema) :
              LET m   == Reach(schema, RootModel, p)
                  key == <<m, JoinPath(p)>>
              IN  /\ key \in DOMAIN accum
                  /\ \A n \in PlainNames(schema, m) : Occurrences(accum[key], n) = 1
        /\ \A k \in DOMAIN accum :
              /\ k[1] # RootModel /\ k[2] # <<>>
              /\ \A i \in 1..Len(accum[k]) : accum[k][i] \in PlainNames(schema, k[1])

\* the collector returned on an acyclic schema with a model two relations deep
CollectedMapIsRightWitness ==
    /\ pc = "collected" /\ Acyclic(schema)
    /\ \E p \in RelationPaths(schema) : Len(p) >= 2 /\ <<Reach(schema, RootModel, p), JoinPath(p)>> \in DOMAIN accum

-----------------------------------------------------------------------------
(* C10 *)

\* a lookup resolves: its ancestor path is a key of the related-field map,
\* or it is undelimited and names a field of the root model
Resolves(lookup) ==
    IF HasDelim(lookup)
    THEN RSplit(lookup)[1] \in DOMAIN AliasToModel(accum)
    ELSE lookup \in {f.name : f \in FieldSet(schema, RootModel)}

\* C10: an export request that selects a lookup that does not resolve is
\* rejected: no query is rewritten and no response is streamed for it.
UnresolvedLookupRejected ==
    (pc = "done" /\ response.kind = "stream") =>
        \A i \in 1..Len(raw_fields) : Resolves(raw_fields[i])

-----------------------------------------------------------------------------
(* C1 *)

\* C1: every rule configure_routes registers is wrapped: its handler runs
\* only for a logged-in user that check_user_permission accepts; without a
\* logged-in user the answer is a redirect to the login URL carrying the
\* return path, without permission it is a 403, and in neither case does the
\* handler run.
HandlersNeedPermission ==
    /\ \A r \in url_map : r.view.auth_required
    /\ auth_result.outcome.kind # "none" =>
          LET user == auth_result.user
              out  == auth_result.outcome
          IN  /\ out.invoked # "none" => user.logged_in /\ user.admin
              /\ ~user.logged_in =>
                    /\ out.kind = "redirect"
                    /\ out.location = <<"login", auth_result.rule>>
                    /\ out.invoked = "none"
              /\ (user.logged_in /\ ~user.admin) =>
                    /\ out.kind = "abort"
                    /\ out.location[1] = "403"
                    /\ out.invoked = "none"

\* a logged-in user without permission asked for a view of a model admin
\* and was refused
HandlersNeedPermissionWitness ==
    /\ auth_result.rule[1] \in AdminModels
    /\ auth_result.user.logged_in /\ ~auth_result.user.admin
    /\ auth_result.outcome.kind = "abort"

-----------------------------------------------------------------------------
(* C2 *)

SeparatorsYielded == {k \in 1..Len(chunks) : chunks[k] = SEPARATOR}

\* C2: for a result of N rows the generator yields '[\n', the N serialized
\* rows with ',\n' between consecutive rows only, and '\n]': N - 1 separators
\* for N >= 1 and exactly '[\n', '\n]' for N = 0.
ArrayIsFramed ==
    gen_pc = "done" =>
        LET N == Len(rows)
        IN  /\ Len(chunks) = IF N = 0 THEN 2 ELSE 2 * N + 1
            /\ chunks[1] = OPEN
            /\ chunks[Len(chunks)] = CLOSE
            /\ \A k \in 1..N : chunks[2 * k] = Dumps(rows[k])
            /\ \A k \in 1..(N - 1) : chunks[2 * k + 1] = SEPARATOR
            /\ Cardinality(SeparatorsYielded) = IF N = 0 THEN 0 ELSE N - 1

\* the generator finished a result of several rows
ArrayIsFramedWitness ==
    /\ gen_pc = "done"
    /\ Len(rows) >= 2
    /\ Cardinality(SeparatorsYielded) = Len(rows) - 1

-----------------------------------------------------------------------------
(* C8 *)

WithRows == {i \in 1..Len(select_queries) : select_queries[i].collected # <<>>}

\* C8: collect_objects returns no entry without instances, ordered by depth
\* and, at equal depth, by model name, and one entry for every query that
\* returned a row.
ObjectsAreOrdered ==
    del_pc = "done" =>
        /\ \A i \in 1..Len(objects) : objects[i].collected # <<>>
        /\ \A i, j \in 1..Len(objects) :
              i < j =>
                 \/ objects[i].depth < objects[j].depth
                 \/ /\ objects[i].depth = objects[j].depth
                    /\ ~StrLess(objects[j].model, objects[i].model)
        /\ Len(objects) = Cardinality(WithRows)
        /\ \A q \in QueryResults :
              q.collected # <<>> =>
                 Occurrences(objects, q) = Occurrences(select_queries, q)

\* three queries, one without rows, and the other two returned out of order
ObjectsAreOrderedWitness ==
    /\ del_pc = "done"
    /\ Len(select_queries) = 3
    /\ Len(objects) = 2
    /\ objects[1].depth = objects[2].depth
    /\ objects # Collected(select_queries)

-----------------------------------------------------------------------------
(* C9 *)

\* the request just handled is a POST to add, or to edit an existing row,
\* whose form does not validate
InvalidPost ==
    /\ form_req.view # "none"
    /\ form_req.method = "POST"
    /\ ~Validate(form_req.form)
    /\ form_req.view = "edit" => form_req.pk \in DOMAIN db

\* C9: a POST whose form fails validation saves nothing, flashes nothing and
\* is answered with the form page carrying the bound form; a row is saved, a
\* message flashed and a redirect sent only for a POST whose form validates.
InvalidPostSavesNothing ==
    [][ /\ InvalidPost' =>
              /\ db' = db
              /\ flashes' = flashes
              /\ form_resp'.kind = "render"
              /\ form_resp'.to[1] = form_req'.view
              /\ form_resp'.form = Bound(form_req'.form)
        /\ (db' # db \/ flashes' # flashes \/ form_resp'.kind = "redirect") =>
              form_req'.method = "POST" /\ Validate(form_req'.form)
      ]_formVars

\* an invalid form was posted to the edit view of an existing row
InvalidPostSavesNothingWitness ==
    /\ InvalidPost
    /\ form_req.view = "edit"
    /\ form_resp.kind = "render"
    /\ form_resp.form = Bound(form_req.form)

-----------------------------------------------------------------------------
(* C11 *)

InIdList(pk) == \E i \in 1..Len(del_req.id_list) : del_req.id_list[i] = pk

\* C11: a GET of the delete view calls delete_instance on no row and renders
\* the preview, with the collected dependents of each selected row when
\* delete_collect_objects is set; a POST calls delete_instance exactly once on
\* each row of the table whose pk is in the submitted id list, on no other
\* row, and redirects to the index.
DeleteOnlyOnPost ==
    [][ /\ del_req'.method = "GET" =>
              /\ delete_calls' = <<>>
              /\ db' = db
              /\ del_resp'.kind = "render" /\ del_resp'.to = "delete"
              /\ DOMAIN del_resp'.collected =
                    IF delete_collect_objects
                    THEN {pk \in DOMAIN db : InIdList(pk)'}
                    ELSE {}
              /\ \A pk \in DOMAIN del_resp'.collected :
                    del_resp'.collected[pk] = Sorted(Collected(DependentQueries(pk)))
        /\ del_req'.method = "POST" =>
              /\ \A pk \in RequestIds :
                    Occurrences(delete_calls', pk) =
                        IF pk \in DOMAIN db /\ InIdList(pk)' THEN 1 ELSE 0
              /\ DOMAIN db' = {pk \in DOMAIN db : ~InIdList(pk)'}
              /\ \A pk \in DOMAIN db' : db'[pk] = db[pk]
              /\ del_resp'.kind = "redirect" /\ del_resp'.to = "index"
      ]_<<db, flashes, deleteViewVars>>

\* a POST naming one of two rows twice deleted that row once and left the other
DeleteOnlyOnPostWitness ==
    /\ del_req.method = "POST"
    /\ Len(del_req.id_list) = 2
    /\ del_req.id_list[1] = del_req.id_list[2]
    /\ Len(delete_calls) = 1
    /\ Cardinality(DOMAIN db) = 1
    /\ del_resp.kind = "redirect"

=============================================================================
